---- MODULE Spec2Model ----
(***************************************************************************)
(* A model of whisper_client.py: a command-line client that prepares an    *)
(* audio file (prepare_audio), uploads it with one multipart POST (main)   *)
(* and renders the response (print_result, extract_result,                 *)
(* build_segments_table, format_seconds).                                  *)
(*                                                                         *)
(* Strings are sequences of one-character strings, so that strip(), the    *)
(* format specs {:02d}/{:03d} and pathlib's suffix/stem are computed, not  *)
(* assumed.  JSON values are tagged records.  A finite float is a whole    *)
(* number of milliseconds plus f/Units of one (0 <= f < Units); the other  *)
(* floats are NaN and the two infinities.                                  *)
(***************************************************************************)
EXTENDS Integers, Sequences, FiniteSets, TLC

----------------------------------------------------------------------------
(* Bounds of the model.                                                    *)

\* Decimal digits a time value carries below the millisecond.
FracDigits == 1
\* Largest hour count among the time values fed to format_seconds.
MaxHours == 100
\* Longest segments list in a response payload.
MaxSegments == 2

RECURSIVE Pow10(_)
Pow10(k) == IF k = 0 THEN 1 ELSE 10 * Pow10(k - 1)

\* A millisecond is Units fixed-point units.
Units == Pow10(FracDigits)

----------------------------------------------------------------------------
(* Strings.                                                                *)

DigitChars == <<"0", "1", "2", "3", "4", "5", "6", "7", "8", "9">>
Upper == <<"W", "A", "V">>
Lower == <<"w", "a", "v">>

IsSpace(c) == c = " "

\* str.strip(): drop leading and trailing whitespace.
RECURSIVE LStrip(_)
LStrip(s) == IF s # <<>> /\ IsSpace(Head(s)) THEN LStrip(Tail(s)) ELSE s
RECURSIVE RStrip(_)
RStrip(s) ==
  IF s # <<>> /\ IsSpace(s[Len(s)]) THEN RStrip(SubSeq(s, 1, Len(s) - 1)) ELSE s
Strip(s) == RStrip(LStrip(s))

\* str.lower(), on the letters the model's file names use.
LowerChar(c) ==
  IF \E i \in 1..Len(Upper) : Upper[i] = c
  THEN Lower[CHOOSE i \in 1..Len(Upper) : Upper[i] = c]
  ELSE c
LowerStr(s) == [i \in 1..Len(s) |-> LowerChar(s[i])]

IsDigit(c) == \E i \in 1..10 : DigitChars[i] = c
DigitVal(c) == (CHOOSE i \in 1..10 : DigitChars[i] = c) - 1
AllDigits(s) == \A i \in 1..Len(s) : IsDigit(s[i])

\* Decimal digits of a natural number, most significant first.
RECURSIVE Digits(_)
Digits(n) ==
  IF n < 10 THEN <<DigitChars[n + 1]>>
  ELSE Digits(n \div 10) \o <<DigitChars[(n % 10) + 1]>>

RECURSIVE Zeros(_)
Zeros(k) == IF k <= 0 THEN <<>> ELSE <<"0">> \o Zeros(k - 1)

\* The digits ds of |n|, signed and zero-padded to a minimum width of w.
PadDigits(neg, ds, w) ==
  IF neg THEN <<"-">> \o Zeros(w - 1 - Len(ds)) \o ds ELSE Zeros(w - Len(ds)) \o ds

\* format(n, "0<w>d"): sign-aware zero padding to a minimum width of w.
PadInt(n, w) == PadDigits(n < 0, Digits(IF n < 0 THEN -n ELSE n), w)

\* The value of a string of decimal digits.
RECURSIVE DigitsVal(_)
DigitsVal(s) ==
  IF s = <<>> THEN 0 ELSE 10 * DigitsVal(SubSeq(s, 1, Len(s) - 1)) + DigitVal(s[Len(s)])

----------------------------------------------------------------------------
(* JSON values, as json.loads produces them.                               *)

JNull == [t |-> "null"]
JNum(ms, f) == [t |-> "num", ms |-> ms, f |-> f]   \* (ms + f/Units) / 1000
Num(n) == JNum(1000 * n, 0)                  \* the integer n
JNaN == [t |-> "nan"]                        \* json.loads accepts NaN
JInf(neg) == [t |-> "inf", neg |-> neg]      \* ... and Infinity, -Infinity, 1e999
JBool(b) == [t |-> "bool", b |-> b]
JStr(s) == [t |-> "str", s |-> s]
JList(l) == [t |-> "list", l |-> l]
JDict(d) == [t |-> "dict", d |-> d]
\* A key a dict does not hold.
Absent == [t |-> "absent"]

Keys == {"text", "segments", "result", "start", "end", "foo"}
EmptyDict == [k \in Keys |-> Absent]
Dict(pairs) == JDict([k \in Keys |-> IF k \in DOMAIN pairs THEN pairs[k] ELSE Absent])

\* key in d
HasKey(j, k) == j.d[k].t # "absent"
\* d.get(key): None when the key is absent.
Get(j, k) == IF HasKey(j, k) THEN j.d[k] ELSE JNull

\* Python truthiness of a JSON value.
Truthy(j) ==
  CASE j.t = "null" -> FALSE
    [] j.t = "bool" -> j.b
    [] j.t = "num" -> j.ms # 0 \/ j.f # 0
    [] j.t = "str" -> j.s # <<>>
    [] j.t = "list" -> j.l # <<>>
    [] j.t = "dict" -> \E k \in Keys : j.d[k].t # "absent"
    [] OTHER -> TRUE

----------------------------------------------------------------------------
(* format_seconds.                                                         *)

Raise(exc) == [kind |-> "raise", exc |-> exc]
Return(s) == [kind |-> "ret", s |-> s]
Dash == <<"-">>

\* float(str) on the spellings the model uses: optional sign, then "inf",
\* "nan", or digits with an optional fraction of at most FracDigits + 3
\* digits; surrounding whitespace is ignored.  Anything else: ValueError.
Negated(ms, f) == IF f = 0 THEN JNum(-ms, 0) ELSE JNum(-ms - 1, Units - f)

ParseScaled(neg, ip, frac) ==
  [ok |-> TRUE,
   f |-> IF neg
         THEN Negated(1000 * DigitsVal(ip) + DigitsVal(SubSeq(frac, 1, 3)),
                      DigitsVal(SubSeq(frac, 4, Len(frac))))
         ELSE JNum(1000 * DigitsVal(ip) + DigitsVal(SubSeq(frac, 1, 3)),
                   DigitsVal(SubSeq(frac, 4, Len(frac))))]

ParseDecimal(neg, ip, fp) ==
  IF Len(ip) + Len(fp) > 0 /\ Len(fp) <= FracDigits + 3 /\ AllDigits(ip) /\ AllDigits(fp)
  THEN ParseScaled(neg, ip, fp \o Zeros(FracDigits + 3 - Len(fp)))
  ELSE [ok |-> FALSE, exc |-> "ValueError"]

\* Index of the first "." of s, 0 when it has none.
FirstDot(s) ==
  IF \E i \in 1..Len(s) : s[i] = "."
  THEN CHOOSE i \in 1..Len(s) : s[i] = "." /\ \A j \in 1..(i - 1) : s[j] # "."
  ELSE 0

ParseSplit(neg, body, dot) ==
  IF dot = 0 THEN ParseDecimal(neg, body, <<>>)
  ELSE ParseDecimal(neg, SubSeq(body, 1, dot - 1), SubSeq(body, dot + 1, Len(body)))

ParseUnsigned(neg, body) ==
  CASE body = <<"i", "n", "f">> -> [ok |-> TRUE, f |-> JInf(neg)]
    [] body = <<"n", "a", "n">> -> [ok |-> TRUE, f |-> JNaN]
    [] OTHER -> ParseSplit(neg, body, FirstDot(body))

ParseSigned(s) ==
  IF s # <<>> /\ Head(s) \in {"-", "+"} THEN ParseUnsigned(Head(s) = "-", Tail(s))
  ELSE ParseUnsigned(FALSE, s)

ParseFloat(raw) == ParseSigned(Strip(raw))

\* float(value)
ToFloat(value) ==
  CASE value.t \in {"num", "nan", "inf"} -> [ok |-> TRUE, f |-> value]
    [] value.t = "bool" -> [ok |-> TRUE, f |-> IF value.b THEN Num(1) ELSE Num(0)]
    [] value.t = "str" -> ParseFloat(value.s)
    [] OTHER -> [ok |-> FALSE, exc |-> "TypeError"]

\* round(x) of x = q + r/Units: to the nearest integer, ties to the even one.
RoundHalfEven(q, r) ==
  IF 2 * r < Units THEN q
  ELSE IF 2 * r > Units THEN q + 1
  ELSE IF q % 2 = 0 THEN q ELSE q + 1

\* int(round(x * 1000)) of the float conversion c: round raises ValueError
\* on NaN and OverflowError on an infinity.
RoundFloat(c) ==
  IF ~c.ok THEN c
  ELSE CASE c.f.t = "nan" -> [ok |-> FALSE, exc |-> "ValueError"]
         [] c.f.t = "inf" -> [ok |-> FALSE, exc |-> "OverflowError"]
         [] OTHER -> [ok |-> TRUE, ms |-> RoundHalfEven(c.f.ms, c.f.f)]

\* int(round(float(value) * 1000)): the integer, or the exception raised.
TotalMs(value) == RoundFloat(ToFloat(value))

\* A faulty variant of DivMod: C-style division, truncating toward zero.
DivModTrunc(a, b) ==
  IF a >= 0 THEN <<a \div b, a % b>> ELSE <<-((-a) \div b), -((-a) % b)>>

\* divmod(a, b) for b > 0: floor division and a remainder in 0..b-1.
DivMod(a, b) == <<a \div b, a % b>>

\* Lines 71-73: the two output forms.
FormatFields(hours, tail) ==
  IF hours # 0 THEN Return(PadInt(hours, 2) \o <<":">> \o tail) ELSE Return(tail)

FormatHMS(hours, minutes, s) ==
  FormatFields(hours, PadInt(minutes, 2) \o <<":">> \o PadInt(s[1], 2)
                        \o <<".">> \o PadInt(s[2], 3))

\* Lines 69-70, on rem = m[2].
FormatHM(hours, m) == FormatHMS(hours, m[1], DivMod(m[2], 1000))

\* Lines 68-69, on (hours, rem) = h.
FormatH(h) == FormatHM(h[1], DivMod(h[2], 60 * 1000))

\* Lines 64-73: the except clause catches TypeError and ValueError only.
FormatTotal(c) ==
  IF c.ok THEN FormatH(DivMod(c.ms, 3600 * 1000))
  ELSE IF c.exc \in {"TypeError", "ValueError"} THEN Return(Dash)
  ELSE Raise(c.exc)

\* format_seconds(value): the string returned, or the exception raised.
FormatSeconds(value) ==
  IF value.t = "null" THEN Return(Dash) ELSE FormatTotal(TotalMs(value))

----------------------------------------------------------------------------
(* pathlib: the suffix and the stem of a path's final component.           *)

\* Index of the last "." of name, 0 when it has none.
LastDot(name) ==
  LET dots == {i \in 1..Len(name) : name[i] = "."}
  IN  IF dots = {} THEN 0 ELSE CHOOSE i \in dots : \A j \in dots : j <= i

\* PurePath.suffix: from the last dot, unless it leads or ends the name.
Suffix(name) ==
  LET i == LastDot(name)
  IN  IF 1 < i /\ i < Len(name) THEN SubSeq(name, i, Len(name)) ELSE <<>>

\* PurePath.stem: the name without its suffix.
Stem(name) ==
  LET i == LastDot(name)
  IN  IF 1 < i /\ i < Len(name) THEN SubSeq(name, 1, i - 1) ELSE name

DotWav == <<".", "w", "a", "v">>

\* path.suffix.lower() == ".wav"
IsWav(name) == LowerStr(Suffix(name)) = DotWav

\* Name of the transcoder's output file: f"{file_path.stem}.wav"
OutputName(name) == Stem(name) \o DotWav

\* A faulty variant of ContentType: the generic type is sent for every upload.
ContentTypeGeneric(name) == "application/octet-stream"

\* Content type of the file part, from the upload path's extension.
ContentType(name) == IF IsWav(name) THEN "audio/wav" ELSE "application/octet-stream"

----------------------------------------------------------------------------
(* extract_result, build_segments_table, print_result.                     *)

\* A faulty variant of ExtractResult: a nested result object is preferred.
ExtractResultNestedFirst(payload) ==
  IF payload.t = "dict"
  THEN IF Get(payload, "result").t = "dict" THEN payload.d["result"]
       ELSE payload
  ELSE payload

ExtractResult(payload) ==
  IF payload.t = "dict"
  THEN IF HasKey(payload, "text") \/ HasKey(payload, "segments") THEN payload
       ELSE IF Get(payload, "result").t = "dict" THEN payload.d["result"]
       ELSE payload
  ELSE payload

\* str(idx), idx counted from 1 (enumerate(segments, start=1)).
RowIndex(idx) == Digits(idx)

\* Lines 92-95 once start and end are formatted: (text or "").strip().
RowOf(idx, start, end, raw) ==
  IF start.kind = "raise" THEN start
  ELSE IF end.kind = "raise" THEN end
  ELSE IF ~Truthy(raw)
  THEN [kind |-> "row",
        row |-> [idx |-> RowIndex(idx), start |-> start.s, end |-> end.s, text |-> <<>>]]
  ELSE IF raw.t # "str" THEN Raise("AttributeError")        \* no .strip
  ELSE [kind |-> "row",
        row |-> [idx |-> RowIndex(idx), start |-> start.s, end |-> end.s,
                 text |-> Strip(raw.s)]]

\* One row of the segment table, or the exception its evaluation raises.
SegmentRow(idx, segment) ==
  IF segment.t # "dict" THEN Raise("AttributeError")        \* no .get
  ELSE RowOf(idx, FormatSeconds(Get(segment, "start")),
             FormatSeconds(Get(segment, "end")), Get(segment, "text"))

\* The rows for segments[idx..], after the rows already added.
RECURSIVE TableRows(_, _, _)
AddRow(segments, idx, rows, r) ==
  IF r.kind = "raise" THEN r ELSE TableRows(segments, idx + 1, Append(rows, r.row))

TableRows(segments, idx, rows) ==
  IF idx > Len(segments) THEN [kind |-> "table", rows |-> rows]
  ELSE AddRow(segments, idx, rows, SegmentRow(idx, segments[idx]))

BuildSegmentsTable(segments) == TableRows(segments, 1, <<>>)

SummaryPanel == [title |-> "Request Summary"]
TranscriptPanel(s) == [title |-> "Transcript", text |-> s]
SegmentsPanel(rows) == [title |-> "Segments", rows |-> rows]
JsonPanel(payload) == [title |-> "Response JSON", data |-> payload]

Unset == [t |-> "unset"]
Rendered(out, res, exc) == [out |-> out, result |-> res, exc |-> exc]

\* Lines 107-113: response.json(), with response.text as the fallback only
\* when the declared content type is not application/json.
ParsePayload(response) ==
  IF response.json THEN [ok |-> TRUE, payload |-> response.payload]
  ELSE IF response.ctype_json THEN [ok |-> FALSE, exc |-> "JSONDecodeError"]
  ELSE [ok |-> TRUE, payload |-> JStr(response.text)]

\* Lines 126-127: the table is printed and print_result returns.
RenderTable(payload, result, out, table) ==
  IF table.kind = "raise" THEN Rendered(out, result, table.exc)
  ELSE Rendered(out \o <<SegmentsPanel(table.rows)>>, result, "none")

\* Lines 124-129, after out was printed.
RenderSegments(payload, result, out, segments) ==
  IF segments.t = "list" /\ segments.l # <<>>
  THEN RenderTable(payload, result, out, BuildSegmentsTable(segments.l))
  ELSE Rendered(out \o <<JsonPanel(payload)>>, result, "none")

\* Lines 121-123: text.strip() needs a string.
RenderText(payload, result, text, segments) ==
  IF ~Truthy(text) THEN RenderSegments(payload, result, <<SummaryPanel>>, segments)
  ELSE IF text.t # "str" THEN Rendered(<<SummaryPanel>>, result, "AttributeError")
  ELSE RenderSegments(payload, result,
                      <<SummaryPanel, TranscriptPanel(Strip(text.s))>>, segments)

\* Lines 120-129.
RenderResult(payload, result) ==
  IF result.t = "dict"
  THEN RenderText(payload, result, Get(result, "text"), Get(result, "segments"))
  ELSE Rendered(<<SummaryPanel, JsonPanel(payload)>>, result, "none")

\* Lines 115-119.
RenderPayload(p) ==
  IF ~p.ok THEN Rendered(<<SummaryPanel>>, Unset, p.exc)
  ELSE IF p.payload.t = "str"
  THEN Rendered(<<SummaryPanel, TranscriptPanel(Strip(p.payload.s))>>, Unset, "none")
  ELSE RenderResult(p.payload, ExtractResult(p.payload))

\* print_result: the panels printed, the local result, the exception raised.
PrintResultOf(response) == RenderPayload(ParsePayload(response))

----------------------------------------------------------------------------
(* The inputs of a run.                                                    *)

Sp == <<" ">>
Hi == <<" ", "h", "i", " ">>

\* File names given with --file (the final path component).
FileNames ==
  { <<"a", ".", "w", "a", "v">>,                \* a.wav
    <<"A", ".", "W", "A", "V">>,                \* A.WAV
    <<"a", ".", "W", "a", "v">>,                \* a.Wav
    <<"a", ".", "v", ".", "w", "a", "v">>,      \* a.v.wav
    <<".", "w", "a", "v">>,                     \* .wav: a hidden file, no suffix
    <<"a", ".", "w", "a", "v", ".">>,           \* a.wav. : no suffix
    <<"a", ".", "w", "a", "v", ".", "a">>,      \* a.wav.a
    <<"a", ".", "w", "a">>,                     \* a.wa
    <<"w", "a", "v">>,                          \* wav
    <<"a", ".", ".", "a">> }                    \* a..a

\* Elements of a segments list: well-formed segments and malformed ones.
SegmentElems ==
  { Dict([start |-> Num(1), end |-> JNum(2500, 0), text |-> JStr(<<" ", "a", " ">>)]),
    Dict([start |-> JNull]),
    Dict([foo |-> JNull]),
    Dict([start |-> JInf(FALSE), text |-> JStr(<<"b">>)]),
    Dict([start |-> JStr(<<"x">>), end |-> JNaN, text |-> Num(0)]),
    Dict([text |-> Num(5)]),
    Num(7) }

RECURSIVE SeqsUpTo(_, _)
SeqsUpTo(S, n) ==
  IF n = 0 THEN {<<>>}
  ELSE LET shorter == SeqsUpTo(S, n - 1)
       IN  shorter \cup {Append(q, x) : q \in {r \in shorter : Len(r) = n - 1}, x \in S}

TextVals == {Absent, JNull, JStr(<<>>), JStr(Hi), JStr(Sp), Num(5), Num(0)}
SegmentsVals ==
  {Absent, JNull, Num(7)} \cup {JList(l) : l \in SeqsUpTo(SegmentElems, MaxSegments)}

\* Objects of the shape {"text": ..., "segments": ...}, either key optional.
ResultDicts ==
  { JDict([EmptyDict EXCEPT !["text"] = tx, !["segments"] = sg]) :
      tx \in TextVals, sg \in SegmentsVals }

\* A few of them, used where two objects are nested.
SmallDicts ==
  { JDict([EmptyDict EXCEPT !["text"] = tx, !["segments"] = sg]) :
      tx \in {Absent, JStr(<<>>), JStr(Hi)},
      sg \in {Absent, JList(<<>>), JList(<<Dict([start |-> Num(1)])>>)} }

\* Values of the response body once parsed as JSON.
Payloads ==
  {JStr(Hi), JStr(<<>>), Num(3), JNull, JBool(TRUE), JList(<<>>), JList(<<Num(3)>>),
   Dict([foo |-> JStr(<<"b">>)])}
    \cup ResultDicts
    \cup { JDict([top.d EXCEPT !["result"] = r]) :
             top \in SmallDicts, r \in SmallDicts \cup {JStr(Hi), JNull} }
    \cup { JDict([EmptyDict EXCEPT !["result"] = r]) :
             r \in ResultDicts \cup {JStr(Hi), JNull, JList(<<>>)} }

\* Bodies that are not JSON.
Texts == {<<>>, Hi, <<"h", "i">>}

\* Responses of the server: is_error, whether the declared content type
\* starts with application/json, and the body (as JSON when it parses).
Responses ==
  { [is_error |-> TRUE, ctype_json |-> FALSE, json |-> FALSE, text |-> tx] : tx \in Texts }
    \cup { [is_error |-> FALSE, ctype_json |-> cj, json |-> FALSE, text |-> tx] :
             cj \in BOOLEAN, tx \in Texts }
    \cup { [is_error |-> FALSE, ctype_json |-> cj, json |-> TRUE, payload |-> pl] :
             cj \in BOOLEAN, pl \in Payloads }

NoResponse == [is_error |-> FALSE, ctype_json |-> FALSE, json |-> FALSE, text |-> <<>>]

\* Arguments of format_seconds: numbers of up to MaxHours hours, of either
\* sign, on both sides of every field boundary and of the rounding ties.
TimeNumbers ==
  { JNum(sgn * (((h * 60 + m) * 60 + sec) * 1000 + ms), f) :
      sgn \in {1, -1}, h \in {0, 1, 9, 10, 99, MaxHours},
      m \in {0, 59}, sec \in {0, 5, 59}, ms \in {0, 1, 432, 999},
      f \in {0, 1, Units \div 2, Units - 1} }

TimeValues ==
  TimeNumbers
    \cup {JNull, JNaN, JInf(FALSE), JInf(TRUE), JBool(TRUE), JBool(FALSE),
          JList(<<>>), JList(<<Num(1)>>), JDict(EmptyDict), Dict([start |-> Num(1)]),
          JStr(<<>>), JStr(<<"x">>), JStr(<<"1", ".", "5">>), JStr(<<" ", "2", " ">>),
          JStr(<<"-", "1">>), JStr(<<"1", ".", "2", ".", "3">>), JStr(<<"i", "n", "f">>),
          JStr(<<"-", "i", "n", "f">>), JStr(<<"n", "a", "n">>), JStr(<<".">>)}

----------------------------------------------------------------------------
(* The state.                                                              *)

VARIABLES
  pc,            \* where the run is: "main", "ffmpeg", "post", "response", "done"
  file_path,     \* args.file, its final component
  is_file,       \* whether file_path is a regular file
  no_convert,    \* args.no_convert
  ffmpeg,        \* whether shutil.which finds the transcoder
  tmp_dir,       \* the temporary directory: "none", "open", "released"
  temp_dir,      \* main's local temp_dir is not None
  upload_path,   \* [dir, name] of the file to upload, once prepared
  posts,         \* the POSTs performed: [path, content_type]
  response,      \* the response received
  console,       \* the panels printed, in order
  result,        \* print_result's local result
  rendered,      \* whether print_result was called
  outcome,       \* [kind |-> "running" | "return" | "raise"]
  value,         \* format_seconds: its argument
  formatted      \* format_seconds: [kind |-> "none" | "ret" | "raise"]

runVars ==
  <<pc, file_path, is_file, no_convert, ffmpeg, tmp_dir, temp_dir, upload_path,
    posts, response, console, result, rendered, outcome>>
fmtVars == <<value, formatted>>
vars == <<runVars, fmtVars>>

Running == [kind |-> "running"]
Returned(code) == [kind |-> "return", code |-> code]
Raised(exc) == [kind |-> "raise", exc |-> exc]
NoPath == [dir |-> "none", name |-> <<>>]
NotFormatted == [kind |-> "none"]

\* The exit status of the process: SystemExit(main()), and 1 when main
\* ends by an exception nothing catches.
ExitCode == IF outcome.kind = "return" THEN outcome.code ELSE 1
Terminated == outcome.kind # "running"

Panel(title) == [title |-> title]

----------------------------------------------------------------------------
(* main and prepare_audio.                                                 *)

Init ==
  /\ pc = "main"
  /\ file_path \in FileNames
  /\ is_file \in BOOLEAN
  /\ no_convert \in BOOLEAN
  /\ ffmpeg \in BOOLEAN
  /\ tmp_dir = "none"
  /\ temp_dir = FALSE
  /\ upload_path = NoPath
  /\ posts = <<>>
  /\ response = NoResponse
  /\ console = <<>>
  /\ result = Unset
  /\ rendered = FALSE
  /\ outcome = Running
  /\ value = JNull
  /\ formatted = NotFormatted

\* main returns code after printing panel.
Fail(panel, code) ==
  /\ console' = Append(console, panel)
  /\ outcome' = Returned(code)
  /\ pc' = "done"

\* Lines 202-210: the source is not a file.
FileNotFound ==
  /\ pc = "main" /\ ~is_file
  /\ Fail(Panel("Error"), 2)
  /\ UNCHANGED <<file_path, is_file, no_convert, ffmpeg, tmp_dir, temp_dir,
                 upload_path, posts, response, result, rendered, fmtVars>>

\* Lines 135-136, 212-232: a WAV source is the upload as it is.
PrepareWav ==
  /\ pc = "main" /\ is_file /\ IsWav(file_path)
  /\ upload_path' = [dir |-> "source", name |-> file_path]
  /\ console' = Append(console, Panel("Whisper ASR"))
  /\ pc' = "post"
  /\ UNCHANGED <<file_path, is_file, no_convert, ffmpeg, tmp_dir, temp_dir,
                 posts, response, result, rendered, outcome, fmtVars>>

\* Lines 137-145, 213-214: not WAV, and conversion is disabled.
UnsupportedFormat ==
  /\ pc = "main" /\ is_file /\ ~IsWav(file_path) /\ no_convert
  /\ Fail(Panel("Unsupported Format"), 2)
  /\ UNCHANGED <<file_path, is_file, no_convert, ffmpeg, tmp_dir, temp_dir,
                 upload_path, posts, response, result, rendered, fmtVars>>

\* Lines 147-156, 213-214: the transcoder is not on the path.
MissingDependency ==
  /\ pc = "main" /\ is_file /\ ~IsWav(file_path) /\ ~no_convert /\ ~ffmpeg
  /\ Fail(Panel("Missing Dependency"), 2)
  /\ UNCHANGED <<file_path, is_file, no_convert, ffmpeg, tmp_dir, temp_dir,
                 upload_path, posts, response, result, rendered, fmtVars>>

\* Lines 158-176: the temporary directory is created, the transcoder runs.
StartConversion ==
  /\ pc = "main" /\ is_file /\ ~IsWav(file_path) /\ ~no_convert /\ ffmpeg
  /\ tmp_dir' = "open"
  /\ pc' = "ffmpeg"
  /\ UNCHANGED <<file_path, is_file, no_convert, ffmpeg, temp_dir, upload_path,
                 posts, response, console, result, rendered, outcome, fmtVars>>

\* Line 185: temp_dir.cleanup() after a failed conversion.
CleanupAfterFailure(dir) == "released"

\* Lines 177-186, 213-214: the transcoder exited non-zero.
ConversionFailed ==
  /\ pc = "ffmpeg"
  /\ tmp_dir' = CleanupAfterFailure(tmp_dir)
  /\ Fail(Panel("Conversion Error"), 2)
  /\ UNCHANGED <<file_path, is_file, no_convert, ffmpeg, temp_dir, upload_path,
                 posts, response, result, rendered, fmtVars>>

\* Lines 188-195, 212-232: the transcoder exited zero.
ConversionOk ==
  /\ pc = "ffmpeg"
  /\ upload_path' = [dir |-> "temp", name |-> OutputName(file_path)]
  /\ temp_dir' = TRUE
  /\ console' = console \o <<Panel("Preparing Audio"), Panel("Whisper ASR")>>
  /\ pc' = "post"
  /\ UNCHANGED <<file_path, is_file, no_convert, ffmpeg, tmp_dir, posts,
                 response, result, rendered, outcome, fmtVars>>

\* A faulty variant of Finally: the directory is released only on the error path.
FinallyOnErrorOnly(failed) ==
  IF temp_dir /\ failed THEN "released" ELSE tmp_dir

\* Lines 247-249: the finally clause of the request.
Finally(failed) == IF temp_dir THEN "released" ELSE tmp_dir

\* Lines 234-240: the one request of the run.
Request == [path |-> upload_path, content_type |-> ContentType(upload_path.name)]

\* A faulty variant of Post: a second attempt follows the first.
PostWithRetry(sent) == Append(Append(sent, Request), Request)

\* Line 240: client.post, called once.
Post(sent) == Append(sent, Request)

\* Lines 236-249: client.post raised httpx.RequestError.
PostTransportError ==
  /\ pc = "post"
  /\ posts' = Post(posts)
  /\ tmp_dir' = Finally(TRUE)
  /\ Fail(Panel("Network Error"), 1)
  /\ UNCHANGED <<file_path, is_file, no_convert, ffmpeg, temp_dir, upload_path,
                 response, result, rendered, fmtVars>>

\* Lines 236-249: client.post returned a response.
PostResponse ==
  /\ pc = "post"
  /\ \E r \in Responses : response' = r
  /\ posts' = Post(posts)
  /\ tmp_dir' = Finally(FALSE)
  /\ pc' = "response"
  /\ UNCHANGED <<file_path, is_file, no_convert, ffmpeg, temp_dir, upload_path,
                 console, result, rendered, outcome, fmtVars>>

\* Lines 251-260: the response has an error status.
HttpError ==
  /\ pc = "response" /\ response.is_error
  /\ Fail([title |-> "HTTP",
           text |-> IF Strip(response.text) # <<>> THEN Strip(response.text)
                    ELSE <<"(", "e", "m", "p", "t", "y", ")">>], 1)
  /\ UNCHANGED <<file_path, is_file, no_convert, ffmpeg, tmp_dir, temp_dir,
                 upload_path, posts, response, result, rendered, fmtVars>>

\* Lines 262-263: the response is rendered; main returns 0 unless
\* print_result raised.
PrintResult ==
  /\ pc = "response" /\ ~response.is_error
  /\ \E r \in {PrintResultOf(response)} :
       /\ console' = console \o r.out
       /\ result' = r.result
       /\ outcome' = IF r.exc = "none" THEN Returned(0) ELSE Raised(r.exc)
  /\ rendered' = TRUE
  /\ pc' = "done"
  /\ UNCHANGED <<file_path, is_file, no_convert, ffmpeg, tmp_dir, temp_dir,
                 upload_path, posts, response, fmtVars>>

Next ==
  \/ FileNotFound
  \/ PrepareWav
  \/ UnsupportedFormat
  \/ MissingDependency
  \/ StartConversion
  \/ ConversionFailed
  \/ ConversionOk
  \/ PostTransportError
  \/ PostResponse
  \/ HttpError
  \/ PrintResult

Spec == Init /\ [][Next]_vars

----------------------------------------------------------------------------
(* format_seconds on its own.                                              *)

InitFmt ==
  /\ pc = "done"
  /\ file_path = <<>>
  /\ is_file = FALSE
  /\ no_convert = FALSE
  /\ ffmpeg = FALSE
  /\ tmp_dir = "none"
  /\ temp_dir = FALSE
  /\ upload_path = NoPath
  /\ posts = <<>>
  /\ response = NoResponse
  /\ console = <<>>
  /\ result = Unset
  /\ rendered = FALSE
  /\ outcome = Running
  /\ value \in TimeValues
  /\ formatted = NotFormatted

CallFormatSeconds ==
  /\ formatted.kind = "none"
  /\ formatted' = FormatSeconds(value)
  /\ UNCHANGED <<runVars, value>>

NextFmt == CallFormatSeconds

SpecFmt == InitFmt /\ [][NextFmt]_vars

----------------------------------------------------------------------------
(* The claims.                                                             *)

Titles(panels) == [i \in 1..Len(panels) |-> panels[i].title]
Printed(title) == \E i \in 1..Len(console) : console[i].title = title
TransportFailed == Printed("Network Error")
TranscoderExitedZero == Printed("Preparing Audio")
ReturnedCode(code) == outcome.kind = "return" /\ outcome.code = code

\* The panels print_result printed after its summary panel.
AfterSummary ==
  LET i == CHOOSE j \in 1..Len(console) : console[j].title = "Request Summary"
  IN  SubSeq(console, i + 1, Len(console))

\* The name ends in ".wav", in any case, after at least one other character.
EndsWithDotWav(name) ==
  /\ Len(name) > 4
  /\ LowerStr(SubSeq(name, Len(name) - 3, Len(name))) = <<".", "w", "a", "v">>

\* C1: when a run has ended, by a return on any path or by an exception, the
\* temporary directory is not open: it was never created or it is released.
C1_TempDirReleased == Terminated => tmp_dir \in {"none", "released"}

\* C1 witness: a run that transcoded, got a successful response and ended
\* with the directory released.
C1_Witness == ReturnedCode(0) /\ TranscoderExitedZero /\ tmp_dir = "released"

\* C2: the exit code is 2 exactly for a missing file or a failed preparation,
\* 1 exactly for a transport failure or an HTTP error status, 0 exactly when a
\* non-error response was rendered; a run that rendered never ends with 1 or 2.
C2_ExitCodeByOutcome ==
  Terminated =>
    /\ ExitCode \in {0, 1, 2}
    /\ ExitCode = 2 <=> (~is_file \/ upload_path = NoPath)
    /\ ExitCode = 1 <=> (TransportFailed \/ (posts # <<>> /\ response.is_error))
    /\ ExitCode = 0 <=> (posts # <<>> /\ ~TransportFailed /\ ~response.is_error /\ rendered)
    /\ rendered => ExitCode = 0

C4_UploadIsWav ==
  \A i \in 1..Len(posts) :
    /\ posts[i].content_type = "audio/wav"
    /\ EndsWithDotWav(file_path) =>
         /\ posts[i].path = [dir |-> "source", name |-> file_path]
         /\ tmp_dir = "none"
         /\ ~TranscoderExitedZero /\ ~Printed("Conversion Error")
    /\ ~EndsWithDotWav(file_path) =>
         /\ posts[i].path.dir = "temp"
         /\ posts[i].path.name = Stem(file_path) \o <<".", "w", "a", "v">>
         /\ TranscoderExitedZero

\* C4 witness: a.wav.a was transcoded and posted as a.wav.wav.
C4_Witness ==
  /\ Len(posts) = 1
  /\ file_path = <<"a", ".", "w", "a", "v", ".", "a">>
  /\ posts[1].path.name = <<"a", ".", "w", "a", "v", ".", "w", "a", "v">>
  /\ posts[1].content_type = "audio/wav"

\* C5: whenever the body of a successful response is not JSON, whatever the
\* declared content type, print_result prints the stripped body as the
\* transcript panel and the run ends with exit code 0.
C5_ParseFailureFallsBack ==
  (rendered /\ ~response.json) =>
    /\ ReturnedCode(0)
    /\ AfterSummary = <<TranscriptPanel(Strip(response.text))>>

\* The object the claimed priority selects from a parsed payload p, Unset when
\* it selects none.
ClaimedResult(p) ==
  IF p.t = "dict" /\ (HasKey(p, "text") \/ HasKey(p, "segments")) THEN p
  ELSE IF p.t = "dict" /\ HasKey(p, "result") /\ p.d["result"].t = "dict" THEN p.d["result"]
  ELSE Unset

\* C6: for a parsed payload that is not a string, print_result works on the
\* top-level object when it has a text or a segments key, else on the nested
\* result object; a transcript panel shows that object's text; when neither
\* exists only the raw JSON of the payload follows the summary.
C6_ResultPriority ==
  (rendered /\ response.json /\ response.payload.t # "str") =>
    LET chosen == ClaimedResult(response.payload)
    IN  IF chosen = Unset
        THEN ReturnedCode(0) /\ AfterSummary = <<JsonPanel(response.payload)>>
        ELSE /\ result = chosen
             /\ \A i \in 1..Len(AfterSummary) :
                  AfterSummary[i].title = "Transcript" =>
                    /\ chosen.d["text"].t = "str"
                    /\ AfterSummary[i].text = Strip(chosen.d["text"].s)
             /\ (ReturnedCode(0) /\ Truthy(Get(chosen, "text"))) =>
                  AfterSummary[1].title = "Transcript"

\* C6 witness: the top level has a segments key and no text, its nested
\* result has a text, and no transcript was printed.
C6_Witness ==
  /\ rendered /\ response.json /\ response.payload.t = "dict"
  /\ HasKey(response.payload, "segments") /\ ~HasKey(response.payload, "text")
  /\ Get(response.payload, "result").t = "dict"
  /\ Truthy(Get(response.payload.d["result"], "text"))
  /\ ReturnedCode(0)
  /\ Titles(AfterSummary) = <<"Response JSON">>

\* C7: after the summary, print_result prints exactly one of: the transcript
\* alone (string payload); an optional transcript, present iff the result's
\* text is non-empty, then the segment table with one row per segment numbered
\* from 1 (result with a non-empty segments list); an optional transcript then
\* the raw JSON of the payload (every other case).
C7_PanelSequences ==
  (rendered /\ response.json) =>
    LET p == response.payload
        chosen == ClaimedResult(p)
        segs == IF chosen = Unset THEN JNull ELSE Get(chosen, "segments")
        transcript == IF chosen # Unset /\ Truthy(Get(chosen, "text"))
                      THEN <<"Transcript">> ELSE <<>>
        last == AfterSummary[Len(AfterSummary)]
    IN  IF p.t = "str" THEN AfterSummary = <<TranscriptPanel(Strip(p.s))>>
        ELSE IF segs.t = "list" /\ segs.l # <<>>
        THEN /\ Titles(AfterSummary) = transcript \o <<"Segments">>
             /\ Len(last.rows) = Len(segs.l)
             /\ \A i \in 1..Len(last.rows) : last.rows[i].idx = Digits(i)
        ELSE /\ Titles(AfterSummary) = transcript \o <<"Response JSON">>
             /\ last.data = p

\* C10: for a successful response whose body parses as JSON, print_result
\* does not raise, its last panel is a transcript, a segment table or the raw
\* JSON, and the run ends with exit code 0.
C10_NoPayloadRaises ==
  (rendered /\ response.json) =>
    /\ ReturnedCode(0)
    /\ console[Len(console)].title \in {"Transcript", "Segments", "Response JSON"}

----------------------------------------------------------------------------
(* The claims about format_seconds, under SpecFmt.                         *)

Formatted == formatted.kind # "none"
\* The argument converts to a finite number of milliseconds.
Numeric == value.t # "null" /\ TotalMs(value).ok
\* The argument is a finite JSON number.
IsNumber == value.t = "num"

\* The fields of a returned string, read from its end: ...MM:SS.mmm
Out == formatted.s
MillisField == SubSeq(Out, Len(Out) - 2, Len(Out))
SecondsField == SubSeq(Out, Len(Out) - 5, Len(Out) - 4)
MinutesField == SubSeq(Out, Len(Out) - 8, Len(Out) - 7)
HoursField == SubSeq(Out, 1, Len(Out) - 10)

\* An optional minus sign, then at least one digit.
IsSignedInt(s) ==
  /\ s # <<>>
  /\ IF Head(s) = "-" THEN Tail(s) # <<>> /\ AllDigits(Tail(s)) ELSE AllDigits(s)
SignedVal(s) == IF Head(s) = "-" THEN -DigitsVal(Tail(s)) ELSE DigitsVal(s)

\* The minutes, seconds and milliseconds fields: fixed width, in range.
TailWellFormed ==
  /\ Len(Out) >= 9
  /\ Out[Len(Out) - 3] = "." /\ Out[Len(Out) - 6] = ":"
  /\ AllDigits(MillisField) /\ AllDigits(SecondsField) /\ AllDigits(MinutesField)
  /\ DigitsVal(MinutesField) <= 59 /\ DigitsVal(SecondsField) <= 59

TailMs ==
  DigitsVal(MinutesField) * 60000 + DigitsVal(SecondsField) * 1000 + DigitsVal(MillisField)

\* total is the float value.ms + value.f/Units rounded to an integer.
IsRounding(total) ==
  value.t = "num" =>
    /\ total \in {value.ms, value.ms + 1}
    /\ total = value.ms => 2 * value.f <= Units
    /\ total = value.ms + 1 => 2 * value.f >= Units

\* The output encodes total: MM:SS.mmm when the hours are 0, else the hours
\* field, ":" and MM:SS.mmm.
Encodes(total) ==
  /\ TailWellFormed
  /\ IF Len(Out) = 9 THEN TailMs = total
     ELSE /\ Len(Out) >= 11 /\ Out[Len(Out) - 9] = ":"
          /\ IsSignedInt(HoursField)
          /\ SignedVal(HoursField) # 0
          /\ SignedVal(HoursField) * 3600000 + TailMs = total

C9_DashOnFailure ==
  Formatted =>
    /\ formatted.kind = "ret"
    /\ ~Numeric => Out = Dash
    /\ Out # Dash => Numeric

====
